---- MODULE Spec2Model ----
(***************************************************************************)
(* Model of foliant/preprocessors/utils/preprocessor_ext.py:               *)
(*   allow_fail, BasePreprocessorExt.get_options, get_tag_context,         *)
(*   _warning and _process_tags_for_all_files.                             *)
(*                                                                         *)
(* A Python str is a sequence of one-character strings.  A message sent   *)
(* to a stream is such a sequence too (the f-string pieces concatenated).  *)
(***************************************************************************)
EXTENDS Integers, Sequences, FiniteSets, TLC

VARIABLES
    current_filename,  \* self.current_filename ("" or a relative path)
    debug,             \* self.debug
    quiet,             \* self.quiet
    pattern,           \* self.pattern (which compiled pattern the host gave)
    func,              \* behaviour of the tag function, per file
    disk,              \* content of every .md file of working_dir
    call,              \* the last operation: its arguments and its outcome
    userStream,        \* what the last operation sent to output()
    logStream,         \* what the last operation sent to logger.warning
    lastRun            \* "none" | "completed" | "aborted": the last batch run

vars == <<current_filename, debug, quiet, pattern, func, disk, call,
          userStream, logStream, lastRun>>

(***************************************************************************)
(* Bounds of the model.                                                    *)
(***************************************************************************)
MaxSrc == 6        \* longest source string given to get_tag_context
MaxLimit == 3      \* largest limit given to get_tag_context
MaxFrags == 3      \* most fragments an options string is built from
MaxContent == 1    \* longest initial content of a file
MaxPad == 2        \* most characters around a match given to the wrapper
MaxOver == 2       \* how far such a match may exceed the default limit

(***************************************************************************)
(* Python helpers.                                                         *)
(***************************************************************************)
Min(a, b) == IF a < b THEN a ELSE b
Max(a, b) == IF a > b THEN a ELSE b

\* s[a:b] for 0 <= a, 0 <= b (indices are 0-based, b is clamped to len(s),
\* an empty string when a >= b).
Slice(s, a, b) == SubSeq(s, a + 1, Min(b, Len(s)))

\* The characters of a str literal written in the code.
Ellipsis == <<".", ".", ".">>
Placeholder == <<" ", "<", ".", ".", ".", ">", " ">>

\* All strings over alphabet A of length at most n.
StringsUpTo(A, n) == UNION {[1..k -> A] : k \in 0..n}

(***************************************************************************)
(* get_tag_context (lines 63-87).  The result is the string the code       *)
(* returns, each character paired with the 0-based index of the source     *)
(* character it was sliced from (-1 for a character of a literal).         *)
(***************************************************************************)
Lit(s) == [i \in 1..Len(s) |-> [pos |-> -1, ch |-> s[i]]]

SlicePieces(source, a, b) ==
    LET hi == Min(b, Len(source))
    IN  IF a >= hi THEN <<>>
        ELSE [i \in 1..(hi - a) |-> [pos |-> a + i - 1, ch |-> source[a + i]]]

Text(pieces) == [i \in 1..Len(pieces) |-> pieces[i].ch]

\* The split points with the halving forgotten.
BreakpointsNoHalf(mstart, mend, limit) ==
    [bp1 |-> mstart + limit, bp2 |-> mend - limit]

Breakpoints(mstart, mend, limit) ==
    [bp1 |-> mstart + limit \div 2, bp2 |-> mend - limit \div 2]

get_tag_context(source, mstart, mend, limit, full_tag) ==
    LET start == Max(0, mstart - limit)
        end == Min(Len(source), mend + limit)
        head == IF start # 0 THEN Lit(Ellipsis) ELSE <<>>
        bp == Breakpoints(mstart, mend, limit)
        body == IF mend - mstart > limit /\ ~full_tag
                THEN SlicePieces(source, start, bp.bp1) \o Lit(Placeholder)
                     \o SlicePieces(source, bp.bp2, end)
                ELSE SlicePieces(source, start, end)
        tail == IF end # Len(source) THEN Lit(Ellipsis) ELSE <<>>
    IN  head \o body \o tail

(***************************************************************************)
(* State shared by the specifications: a fresh object, nothing called.     *)
(***************************************************************************)
Files == <<"a.md", "sub/b.md">>
FileSet == {Files[i] : i \in 1..Len(Files)}
SrcAlphabet == {"a", "t"}
NoCall == [op |-> "none"]

Fresh ==
    /\ current_filename = ""
    /\ userStream = <<>>
    /\ logStream = <<>>
    /\ call = NoCall
    /\ lastRun = "none"

FixedConfig ==
    /\ debug = FALSE
    /\ quiet = FALSE
    /\ pattern = "t"
    /\ func = [f \in FileSet |-> "subst"]
    /\ disk = [f \in FileSet |-> <<>>]

Frame == UNCHANGED <<current_filename, debug, quiet, pattern, func, disk,
                     userStream, logStream, lastRun>>

(***************************************************************************)
(* SpecCtx: get_tag_context applied to every match of every short source.  *)
(***************************************************************************)
CtxInputs ==
    {[op |-> "get_tag_context", source |-> source, mstart |-> mstart,
      mend |-> mend, limit |-> limit, full_tag |-> full_tag,
      done |-> FALSE, result |-> <<>>] :
        source \in StringsUpTo(SrcAlphabet, MaxSrc),
        mstart \in 0..MaxSrc, mend \in 0..MaxSrc,
        limit \in 0..MaxLimit, full_tag \in BOOLEAN}

\* A match location satisfies 0 <= start <= end <= len(source).
InitCtx ==
    /\ FixedConfig
    /\ current_filename = ""
    /\ userStream = <<>>
    /\ logStream = <<>>
    /\ lastRun = "none"
    /\ call \in {c \in CtxInputs :
                    c.mstart <= c.mend /\ c.mend <= Len(c.source)}

GetTagContext ==
    /\ call.op = "get_tag_context"
    /\ ~call.done
    /\ call' = [call EXCEPT !.done = TRUE,
                            !.result = get_tag_context(call.source,
                                call.mstart, call.mend, call.limit,
                                call.full_tag)]
    /\ Frame

NextCtx == GetTagContext
SpecCtx == InitCtx /\ [][NextCtx]_vars

(***************************************************************************)
(* get_options (lines 41-60).                                              *)
(***************************************************************************)
Letters ==
    {"a", "b", "c", "d", "e", "f", "g", "h", "i", "j", "k", "l", "m", "n",
     "o", "p", "q", "r", "s", "t", "u", "v", "w", "x", "y", "z",
     "A", "B", "C", "D", "E", "F", "G", "H", "I", "J", "K", "L", "M", "N",
     "O", "P", "Q", "R", "S", "T", "U", "V", "W", "X", "Y", "Z"}
Digits == {"0", "1", "2", "3", "4", "5", "6", "7", "8", "9"}
KeyStartChars == Letters \cup {"_", ":"}            \* [A-Za-z_:]
KeyChars == Digits \cup Letters \cup {"_", ":", "-", "."}  \* [0-9A-Za-z_:\-\.]
Quotes == {"'", "\""}                                \* (\'|")

\* 1-based index just after the longest run of key characters from i.
RECURSIVE KeyEnd(_, _)
KeyEnd(s, i) ==
    IF i <= Len(s) /\ s[i] \in KeyChars THEN KeyEnd(s, i + 1) ELSE i

\* The match of option_pattern that starts at 1-based index i, if any.
\* No key character is "=", so the greedy key has one possible end; the
\* value (.+?, DOTALL) is at least one character and stops at the first
\* later occurrence of the opening quote (\2).
MatchAt(s, i) ==
    IF ~(i <= Len(s) /\ s[i] \in KeyStartChars) THEN [found |-> FALSE]
    ELSE
      LET e == KeyEnd(s, i + 1)
      IN  IF ~(e + 1 <= Len(s) /\ s[e] = "=" /\ s[e + 1] \in Quotes)
          THEN [found |-> FALSE]
          ELSE
            LET closes == {k \in (e + 3)..Len(s) : s[k] = s[e + 1]}
            IN  IF closes = {} THEN [found |-> FALSE]
                ELSE
                  LET k == CHOOSE x \in closes : \A y \in closes : x <= y
                  IN  [found |-> TRUE,
                       key |-> SubSeq(s, i, e - 1),
                       value |-> SubSeq(s, e + 2, k - 1),
                       last |-> k]

\* option_pattern.finditer(options_string): the non-overlapping matches,
\* leftmost first.
RECURSIVE finditer(_, _)
finditer(s, i) ==
    IF i > Len(s) THEN <<>>
    ELSE LET m == MatchAt(s, i)
         IN  IF m.found
             THEN <<[key |-> m.key, value |-> m.value]>>
                  \o finditer(s, m.last + 1)
             ELSE finditer(s, i + 1)

RECURSIVE DecimalValue(_)
DecimalValue(ds) ==
    IF ds = <<>> THEN 0
    ELSE 10 * DecimalValue(SubSeq(ds, 1, Len(ds) - 1))
         + (CHOOSE n \in 0..9 :
               <<"0", "1", "2", "3", "4", "5", "6", "7", "8", "9">>[n + 1]
                   = ds[Len(ds)])

\* yaml.load of a plain scalar without surrounding blanks (every value of
\* the strings built below is one): a decimal literal with no leading zero
\* is an int, true/false a bool, anything else the string itself.
yaml_load(v) ==
    IF v # <<>> /\ v[1] \in Digits \ {"0"} /\ \A i \in 1..Len(v) : v[i] \in Digits
    THEN [type |-> "int", val |-> DecimalValue(v)]
    ELSE IF v \in {<<"t", "r", "u", "e">>, <<"f", "a", "l", "s", "e">>}
    THEN [type |-> "bool", val |-> (v = <<"t", "r", "u", "e">>)]
    ELSE [type |-> "str", val |-> v]

\* A dict insertion that keeps the entry a key already has.
DictSetKeepFirst(d, k, v) ==
    [x \in DOMAIN d \cup {k} |-> IF x \in DOMAIN d THEN d[x] ELSE v]

\* One "key: value" of the dict comprehension: d[k] = v.
DictSet(d, k, v) ==
    [x \in DOMAIN d \cup {k} |-> IF x = k THEN v ELSE d[x]]

EmptyDict == [x \in {} |-> 0]

\* The dict comprehension over the matches, in order.
RECURSIVE DictOf(_, _)
DictOf(matches, d) ==
    IF matches = <<>> THEN d
    ELSE DictOf(Tail(matches),
                DictSet(d, matches[1].key, yaml_load(matches[1].value)))

get_options(options_string) ==
    IF options_string = <<>> THEN EmptyDict
    ELSE DictOf(finditer(options_string, 1), EmptyDict)

(***************************************************************************)
(* SpecOpt: get_options applied to strings built from attribute fragments, *)
(* whole and broken ones.                                                  *)
(***************************************************************************)
Fragments ==
    {<<"a", "=", "\"", "1", "\"">>,            \* a="1"
     <<"a", "=", "\"", "2", "\"">>,            \* a="2"
     <<"b", "=", "'", "1", "'">>,              \* b='1'
     <<"a", "=", "'", "x", "'">>,              \* a='x'
     <<"b", "=", "\"", "t", "r", "u", "e", "\"">>,  \* b="true"
     <<"a", "=", "\"", "1">>,                  \* a="1  (never closed)
     <<" ">>}

RECURSIVE Concat(_)
Concat(ss) == IF ss = <<>> THEN <<>> ELSE ss[1] \o Concat(Tail(ss))

OptInputs ==
    {[op |-> "get_options", options_string |-> Concat(fs),
      done |-> FALSE, result |-> EmptyDict] :
        fs \in StringsUpTo(Fragments, MaxFrags)}

InitOpt ==
    /\ FixedConfig
    /\ current_filename = ""
    /\ userStream = <<>>
    /\ logStream = <<>>
    /\ lastRun = "none"
    /\ call \in OptInputs

GetOptions ==
    /\ call.op = "get_options"
    /\ ~call.done
    /\ call' = [call EXCEPT !.done = TRUE,
                            !.result = get_options(call.options_string)]
    /\ Frame

NextOpt == GetOptions
SpecOpt == InitOpt /\ [][NextOpt]_vars

(***************************************************************************)
(* _warning (lines 89-109).  log_message is a local that only the          *)
(* `if context:` branch first assigns: reading it unassigned raises        *)
(* UnboundLocalError, at line 105, 107 or 109, whichever reads it first.   *)
(* The result is what the call sent to each stream before it returned or   *)
(* raised.                                                                 *)
(***************************************************************************)
FilePrefix(cur) == IF cur # "" THEN <<"[", cur, "] ">> ELSE <<>>
ContextBlock(context) == <<"\nContext:\n---\n">> \o context \o <<"\n---">>
ExceptionBlock(error) == <<"\nException:\n---\n">> \o error \o <<"\n---">>

\* output(text, quiet) of foliant.utils: prints unless quiet.
output(text, qt) == IF qt THEN <<>> ELSE <<text>>

_warning(cur, dbg, qt, msg, context, error) ==
    LET output_message == FilePrefix(cur) \o msg                \* 98-101
        assigned == context # <<>>                              \* 102
        log1 == output_message \o ContextBlock(context)         \* 103
        log2 == IF error # <<>> THEN log1 \o ExceptionBlock(error)
                ELSE log1                                       \* 104-105
        shown == IF dbg THEN log2 ELSE output_message           \* 106-107
    IN  IF ~assigned /\ (error # <<>> \/ dbg)
        THEN [raised |-> TRUE, user |-> <<>>, log |-> <<>>]     \* 105, 107
        ELSE IF ~assigned
        THEN [raised |-> TRUE,                                  \* 109
              user |-> output(<<"WARNING: ">> \o shown, qt), log |-> <<>>]
        ELSE [raised |-> FALSE,
              user |-> output(<<"WARNING: ">> \o shown, qt),    \* 108
              log |-> <<log2>>]                                 \* 109

(***************************************************************************)
(* allow_fail (lines 13-30).  The tag function either returns its          *)
(* replacement text or raises.                                             *)
(***************************************************************************)
DefaultLimit == 100
Behaviours == {"subst", "empty", "raise"}
Replacement(beh) == IF beh = "subst" THEN <<"r">> ELSE <<>>
DefaultMsg == <<"Failed to process tag.">>
ErrorText == <<"boom">>                 \* str(e)
Traceback == <<"Traceback ...">>        \* traceback.format_exc()

\* self.get_tag_context(match) with full_tag given as True.
TagContextFull(source, mstart, mend) ==
    Text(get_tag_context(source, mstart, mend, DefaultLimit, TRUE))

\* self.get_tag_context(match): limit and full_tag take their defaults.
TagContext(source, mstart, mend) ==
    Text(get_tag_context(source, mstart, mend, DefaultLimit, FALSE))

wrapper(cur, dbg, qt, beh, source, mstart, mend) ==
    IF beh # "raise"
    THEN [raised |-> FALSE, ret |-> Replacement(beh), user |-> <<>>,
          log |-> <<>>, warnings |-> <<>>, tries |-> 1]
    ELSE
      LET args == [msg |-> DefaultMsg \o <<" ">> \o ErrorText,
                   context |-> TagContext(source, mstart, mend),
                   error |-> Traceback]
          w == _warning(cur, dbg, qt, args.msg, args.context, args.error)
      IN  [raised |-> w.raised,
           ret |-> IF w.raised THEN <<>> ELSE Slice(source, mstart, mend),
           user |-> w.user, log |-> w.log, warnings |-> <<args>>,
           tries |-> 1]

(***************************************************************************)
(* SpecWrap: the allow_fail wrapper applied to one match, which may be     *)
(* longer than the default limit.  The matched text is t's, the rest a's.  *)
(***************************************************************************)
SourceOf(before, len, after) ==
    [i \in 1..(before + len + after) |->
        IF before < i /\ i <= before + len THEN "t" ELSE "a"]

\* Matches of up to DefaultLimit + MaxOver characters with up to MaxPad
\* characters on either side.
WrapInputs ==
    {[op |-> "wrapper", source |-> SourceOf(before, len, after),
      mstart |-> before, mend |-> before + len, beh |-> beh, done |-> FALSE,
      raised |-> FALSE, ret |-> <<>>, warnings |-> <<>>, tries |-> 0] :
        before \in 0..MaxPad, len \in 0..(DefaultLimit + MaxOver),
        after \in 0..MaxPad, beh \in {"subst", "raise"}}

InitWrap ==
    /\ debug \in BOOLEAN
    /\ quiet \in BOOLEAN
    /\ pattern = "t"
    /\ func = [f \in FileSet |-> "subst"]
    /\ disk = [f \in FileSet |-> <<>>]
    /\ current_filename = ""
    /\ userStream = <<>>
    /\ logStream = <<>>
    /\ lastRun = "none"
    /\ call \in WrapInputs

Emitted(texts, file) ==
    [i \in 1..Len(texts) |-> [text |-> texts[i], during |-> file]]

WrapperCall ==
    /\ call.op = "wrapper"
    /\ ~call.done
    /\ LET r == wrapper(current_filename, debug, quiet, call.beh,
                        call.source, call.mstart, call.mend)
       IN  /\ call' = [call EXCEPT !.done = TRUE, !.raised = r.raised,
                                   !.ret = r.ret, !.warnings = r.warnings,
                                   !.tries = r.tries]
           /\ userStream' = Emitted(r.user, "")
           /\ logStream' = Emitted(r.log, "")
    /\ UNCHANGED <<current_filename, debug, quiet, pattern, func, disk,
                   lastRun>>

NextWrap == WrapperCall
SpecWrap == InitWrap /\ [][NextWrap]_vars

(***************************************************************************)
(* self.pattern.sub(func, content) (line 120), for the patterns t (one tag *)
(* character) and t* (a run of them, possibly empty).  Indices are 0-based.*)
(* re.sub replaces an empty match unless the match before it was empty and *)
(* at the same place.                                                      *)
(***************************************************************************)
Patterns == {"t", "t*"}

\* The end of the longest run of t's that starts at index p.
RECURSIVE RunEnd(_, _)
RunEnd(content, p) ==
    IF p < Len(content) /\ content[p + 1] = "t" THEN RunEnd(content, p + 1)
    ELSE p

\* The first match at or after pos; must: the last match was empty and
\* ended at pos, so this one may not be the empty match at pos.
FindMatch(pat, content, pos, must) ==
    IF pat = "t"
    THEN LET at == {q \in pos..(Len(content) - 1) : content[q + 1] = "t"}
         IN  IF at = {} THEN [found |-> FALSE]
             ELSE LET q == CHOOSE x \in at : \A y \in at : x <= y
                  IN  [found |-> TRUE, mstart |-> q, mend |-> q + 1]
    ELSE IF RunEnd(content, pos) > pos \/ ~must
    THEN [found |-> TRUE, mstart |-> pos, mend |-> RunEnd(content, pos)]
    ELSE IF pos + 1 <= Len(content)
    THEN [found |-> TRUE, mstart |-> pos + 1,
          mend |-> RunEnd(content, pos + 1)]
    ELSE [found |-> FALSE]

\* The element of a one-element set.  Binding a value through a set makes
\* TLC compute it once, however often the body uses it.
Only(S) == CHOOSE x \in S : TRUE

\* The substitution from index pos on; acc is the text built and the
\* messages sent so far.  A callback that raises ends it.
RECURSIVE SubFrom(_, _, _, _, _, _, _, _)
SubFrom(pat, cur, dbg, qt, beh, content, st, acc) ==
    Only({
      IF ~m.found
      THEN [acc EXCEPT !.out = @ \o Slice(content, st.pos, Len(content))]
      ELSE Only({
        IF acc2.raised THEN acc2
        ELSE SubFrom(pat, cur, dbg, qt, beh, content,
                     [pos |-> m.mend, must |-> m.mend = m.mstart], acc2) :
        acc2 \in {[raised |-> r.raised,
                   out |-> acc.out \o Slice(content, st.pos, m.mstart)
                           \o r.ret,
                   user |-> acc.user \o r.user,
                   log |-> acc.log \o r.log] :
                  r \in {wrapper(cur, dbg, qt, beh, content,
                                 m.mstart, m.mend)}}}) :
      m \in {FindMatch(pat, content, st.pos, st.must)}})

sub(pat, cur, dbg, qt, beh, content) ==
    SubFrom(pat, cur, dbg, qt, beh, content,
            [pos |-> 0, must |-> FALSE],
            [raised |-> FALSE, out |-> <<>>, user |-> <<>>, log |-> <<>>])

(***************************************************************************)
(* _process_tags_for_all_files (lines 111-127), func being a tag function  *)
(* wrapped with allow_fail.  io names the open() that fails in this run,   *)
(* if one does (an unreadable or unwritable file: the file keeps its        *)
(* content).  logger.info(log_msg) (line 113) sends no warning and is left *)
(* out.  A file is named by its path relative to working_dir.              *)
(***************************************************************************)
NoIo == [file |-> "", op |-> "none"]
IoFailures == {NoIo} \cup [file : FileSet, op : {"read", "write"}]

\* `if processed_content:` with the test left out.
WriteAlways(processed_content) == TRUE

\* `if processed_content:` (line 122).
ShouldWrite(processed_content) == processed_content # <<>>

\* The reset after the loop forgotten.
KeepFilename(cur) == cur

\* self.current_filename = '' (line 127).
ResetFilename(cur) == ""

\* One iteration of the loop, for Files[i]; run is the state of the run:
\* the files, current_filename, the messages sent, and what was done.
ProcessFile(pat, dbg, qt, fn, io, i, run) ==
    LET f == Files[i]
        run1 == [run EXCEPT !.cur = f, !.visited = @ \o <<f>>]      \* 115
    IN  IF io = [file |-> f, op |-> "read"]                         \* 116
        THEN [run1 EXCEPT !.outcome = "aborted"]
        ELSE Only({
          LET run2 == [run1 EXCEPT !.user = @ \o Emitted(r.user, f),
                                   !.log = @ \o Emitted(r.log, f)]
              run3 == [run2 EXCEPT !.results = @ \o
                                <<[file |-> f, out |-> r.out]>>]
          IN  IF r.raised THEN [run2 EXCEPT !.outcome = "aborted"]
              ELSE IF ~ShouldWrite(r.out) THEN run3                  \* 122
              ELSE IF io = [file |-> f, op |-> "write"]              \* 123
              THEN [run3 EXCEPT !.outcome = "aborted",
                                !.opened = @ \o <<f>>]
              ELSE [run3 EXCEPT !.disk[f] = r.out,                   \* 126
                                !.opened = @ \o <<f>>] :
          r \in {sub(pat, run1.cur, dbg, qt, fn[f], run1.disk[f])}})  \* 120

\* The loop from Files[i] on and the reset after it.  An error that leaves
\* the loop leaves the method: line 127 is not reached.
RECURSIVE _process_tags_for_all_files(_, _, _, _, _, _, _)
_process_tags_for_all_files(pat, dbg, qt, fn, io, i, run) ==
    IF run.outcome = "aborted" THEN run
    ELSE IF i > Len(Files)
    THEN [run EXCEPT !.cur = ResetFilename(run.cur),                 \* 127
                     !.outcome = "completed"]
    ELSE Only({_process_tags_for_all_files(pat, dbg, qt, fn, io, i + 1,
                                           after) :
               after \in {ProcessFile(pat, dbg, qt, fn, io, i, run)}})

(***************************************************************************)
(* Spec: an object of a preprocessor class (its flags, pattern and tag     *)
(* function are fixed at construction) on a working directory, on which    *)
(* _warning and _process_tags_for_all_files are called in any order.       *)
(***************************************************************************)
Init ==
    /\ Fresh
    /\ debug \in BOOLEAN
    /\ quiet \in BOOLEAN
    /\ pattern \in Patterns
    /\ func \in [FileSet -> Behaviours]
    /\ disk \in [FileSet -> StringsUpTo(SrcAlphabet, MaxContent)]

Contexts == {<<>>, <<"c">>}
Errors == {<<>>, <<"e">>}

Warning ==
    /\ \E context \in Contexts, error \in Errors :
         LET w == _warning(current_filename, debug, quiet, <<"m">>,
                           context, error)
         IN  /\ call' = [op |-> "_warning", msg |-> <<"m">>,
                         context |-> context, error |-> error,
                         raised |-> w.raised]
             /\ userStream' = Emitted(w.user, "")
             /\ logStream' = Emitted(w.log, "")
    /\ UNCHANGED <<current_filename, debug, quiet, pattern, func, disk,
                   lastRun>>

\* A run is started only on files no longer than MaxContent.
ProcessTagsForAllFiles ==
    /\ \A f \in FileSet : Len(disk[f]) <= MaxContent
    /\ \E io \in IoFailures :
         LET run == _process_tags_for_all_files(pattern, debug, quiet, func,
                       io, 1,
                       [disk |-> disk, cur |-> current_filename,
                        user |-> <<>>, log |-> <<>>, visited |-> <<>>,
                        results |-> <<>>, opened |-> <<>>,
                        outcome |-> "running"])
         IN  /\ disk' = run.disk
             /\ current_filename' = run.cur
             /\ userStream' = run.user
             /\ logStream' = run.log
             /\ lastRun' = run.outcome
             /\ call' = [op |-> "batch", io |-> io, diskBefore |-> disk,
                         curBefore |-> current_filename,
                         visited |-> run.visited, results |-> run.results,
                         opened |-> run.opened, outcome |-> run.outcome]
    /\ UNCHANGED <<debug, quiet, pattern, func>>

Next == Warning \/ ProcessTagsForAllFiles
Spec == Init /\ [][Next]_vars

(***************************************************************************)
(* Properties.                                                             *)
(***************************************************************************)
CtxTruncated(c) == c.mend - c.mstart > c.limit /\ ~c.full_tag

\* len(matched text), or of its truncated form: first limit//2 characters
\* + ' <...> ' + last limit//2 characters.
MatchOrTruncationLen(c) ==
    IF CtxTruncated(c) THEN 2 * (c.limit \div 2) + Len(Placeholder)
    ELSE c.mend - c.mstart

CtxLengthBound(c) ==
    c.limit * 2 + MatchOrTruncationLen(c) + 2 * Len(Ellipsis)

FromSource(pieces) == SelectSeq(pieces, LAMBDA p : p.pos >= 0)

\* C7: the length of get_tag_context(match, limit, full_tag) never exceeds
\* limit*2 + len(matched text or its truncated form) + 2*len('...'), and
\* every source character of the result comes from
\* source[max(0, start-limit) : min(len(source), end+limit)], each position
\* used at most once and in source order.
C7_ContextBounded ==
    (call.op = "get_tag_context" /\ call.done) =>
        LET src == FromSource(call.result)
            lo == Max(0, call.mstart - call.limit)
            hi == Min(Len(call.source), call.mend + call.limit)
        IN  /\ Len(call.result) <= CtxLengthBound(call)
            /\ \A i \in 1..Len(src) :
                  /\ lo <= src[i].pos /\ src[i].pos < hi
                  /\ src[i].ch = call.source[src[i].pos + 1]
            /\ \A i \in 1..Len(src) : \A j \in 1..Len(src) :
                  i < j => src[i].pos < src[j].pos

\* A truncated match cropped at both ends of the source, the bound attained.
C7_Witness ==
    /\ call.op = "get_tag_context" /\ call.done
    /\ call.limit >= 1
    /\ CtxTruncated(call)
    /\ call.mstart - call.limit > 0
    /\ call.mend + call.limit < Len(call.source)
    /\ Len(call.result) = CtxLengthBound(call)
\* The matches of the attribute grammar in the last get_options input.
OptMatches == finditer(call.options_string, 1)

\* The index of the last match whose key is k.
LastWith(ms, k) ==
    CHOOSE i \in 1..Len(ms) :
        /\ ms[i].key = k
        /\ \A j \in 1..Len(ms) : ms[j].key = k => j <= i

\* C8: get_options returns an empty mapping for the empty string, and for
\* a string with several key="value" fragments of the same key the mapping
\* holds exactly one entry for that key, the decoded value of the last such
\* fragment.
C8_LastWins ==
    (call.op = "get_options" /\ call.done) =>
        /\ call.options_string = <<>> => DOMAIN call.result = {}
        /\ DOMAIN call.result = {OptMatches[i].key : i \in 1..Len(OptMatches)}
        /\ \A i \in 1..Len(OptMatches) :
              call.result[OptMatches[i].key] =
                  yaml_load(OptMatches[LastWith(OptMatches, OptMatches[i].key)].value)

\* a="1" a="2" gives {a: 2}.
C8_Witness ==
    /\ call.op = "get_options" /\ call.done
    /\ call.options_string =
          <<"a", "=", "\"", "1", "\"", " ", "a", "=", "\"", "2", "\"">>
    /\ DOMAIN call.result = {<<"a">>}
    /\ call.result[<<"a">>] = [type |-> "int", val |-> 2]
WrapperFailed == call.op = "wrapper" /\ call.done /\ call.beh = "raise"

\* C1: when the wrapped function raises on a match, the wrapper does not
\* raise: it returns exactly match.group(0), _warning is invoked exactly
\* once for that match, and the wrapped function is not retried.
C1_FailureIsolated ==
    WrapperFailed =>
        /\ ~call.raised
        /\ call.ret = Slice(call.source, call.mstart, call.mend)
        /\ Len(call.warnings) = 1
        /\ call.tries = 1

\* C9 as stated: the context passed to _warning is the extractor's output
\* in full-tag mode with the default limit, the matched text untruncated
\* whatever its length, and the error argument is the trace.
C9_ContextIsFullTag ==
    WrapperFailed =>
        /\ Len(call.warnings) = 1
        /\ call.warnings[1].context =
              Text(get_tag_context(call.source, call.mstart, call.mend,
                                   DefaultLimit, TRUE))
        /\ call.warnings[1].error = Traceback

\* The context with the defaults limit=100, full_tag=False, written out.
C9_Expected(c) ==
    LET start == Max(0, c.mstart - DefaultLimit)
        end == Min(Len(c.source), c.mend + DefaultLimit)
        half == DefaultLimit \div 2
    IN  (IF start # 0 THEN Ellipsis ELSE <<>>)
        \o (IF c.mend - c.mstart > DefaultLimit
            THEN Slice(c.source, start, c.mstart + half) \o Placeholder
                 \o Slice(c.source, c.mend - half, end)
            ELSE Slice(c.source, start, end))
        \o (IF end # Len(c.source) THEN Ellipsis ELSE <<>>)

\* C9 as amended: the context passed to _warning is the extractor's output
\* with the defaults (limit 100, full_tag off): a match of at most 100
\* characters appears in full, a longer one as its first 50 characters,
\* ' <...> ' and its last 50 characters; the error argument is the trace.
C9_ContextIsDefault ==
    WrapperFailed =>
        /\ Len(call.warnings) = 1
        /\ call.warnings[1].context = C9_Expected(call)
        /\ call.warnings[1].error = Traceback

\* A failing match longer than the default limit, reported truncated.
C9_Witness ==
    /\ WrapperFailed
    /\ ~call.raised
    /\ call.mend - call.mstart > DefaultLimit
    /\ Len(call.warnings[1].context) =
          call.mstart + 2 * (DefaultLimit \div 2) + Len(Placeholder)
          + (Len(call.source) - call.mend)
    /\ Len(logStream) = 1
WarningCalled == call.op = "_warning"
BatchEnded == call.op = "batch"

\* C4: _warning never raises: whatever context, error, debug, quiet and
\* current_filename are, the call completes and writes the log entry.
C4_WarningNeverRaises ==
    WarningCalled => (~call.raised /\ Len(logStream) = 1)

\* The short and the long form of a message, as the specification words
\* them: context and error each add a block when given, independently.
ShortForm(cur, msg) == (IF cur # "" THEN <<"[", cur, "] ">> ELSE <<>>) \o msg
LongForm(cur, msg, context, error) ==
    ShortForm(cur, msg)
    \o (IF context # <<>> THEN ContextBlock(context) ELSE <<>>)
    \o (IF error # <<>> THEN ExceptionBlock(error) ELSE <<>>)

\* C6: for every _warning call the log receives the long form; the
\* user-facing stream receives 'WARNING: ' + the long form when debug is
\* set and 'WARNING: ' + the short form otherwise, and nothing when quiet is
\* set, the log entry being written all the same.
C6_StreamsByFlags ==
    WarningCalled =>
        LET short == ShortForm(current_filename, call.msg)
            long == LongForm(current_filename, call.msg, call.context,
                             call.error)
        IN  /\ logStream = <<[text |-> long, during |-> ""]>>
            /\ userStream =
                 IF quiet THEN <<>>
                 ELSE <<[text |-> <<"WARNING: ">>
                                  \o (IF debug THEN long ELSE short),
                         during |-> ""]>>

\* The '[file] ' prefix a message carries ("" when it carries none).
PrefixOf(text) ==
    LET t == IF text # <<>> /\ text[1] = "WARNING: " THEN Tail(text)
             ELSE text
    IN  IF Len(t) >= 3 /\ t[1] = "[" /\ t[3] = "] " THEN t[2] ELSE ""

Messages ==
    {userStream[i] : i \in 1..Len(userStream)}
    \cup {logStream[i] : i \in 1..Len(logStream)}

\* C5: current_filename is the file's relative path while that file is
\* processed, and it is empty after any batch run has ended, also one that
\* a read or write error ended.
C5_FilenameResetAfterRun ==
    BatchEnded =>
        /\ \A m \in Messages : PrefixOf(m.text) = m.during
        /\ current_filename = ""

\* C10: a warning emitted during a batch run carries the relative path of
\* the file whose content holds the failing match, and a warning emitted
\* before the first batch run or after a completed one carries no prefix.
C10_PrefixIsCurrentFile ==
    \A m \in Messages :
        /\ m.during # "" => PrefixOf(m.text) = m.during
        /\ (m.during = "" /\ lastRun \in {"none", "completed"})
               => PrefixOf(m.text) = ""

\* A completed run that warned about a failing match in each file: each
\* warning carries its own file, not the file processed before it.
C10_Witness ==
    /\ BatchEnded
    /\ call.outcome = "completed"
    /\ Len(userStream) = 2
    /\ PrefixOf(userStream[1].text) = Files[1]
    /\ PrefixOf(userStream[2].text) = Files[2]
    /\ userStream[2].during = Files[2]

ResultOf(f) ==
    {call.results[i] : i \in {j \in 1..Len(call.results) :
                                 call.results[j].file = f}}
Opened(f) == \E i \in 1..Len(call.opened) : call.opened[i] = f

\* C3: a file whose substitution result is the empty string is not opened
\* for writing and keeps its content; a file is overwritten only when the
\* result is non-empty, and then with exactly that result.
C3_EmptyResultNotWritten ==
    BatchEnded =>
        \A f \in FileSet :
            /\ \A r \in ResultOf(f) :
                  /\ r.out = <<>> =>
                        (~Opened(f) /\ disk[f] = call.diskBefore[f])
                  /\ (Opened(f) /\ call.io # [file |-> f, op |-> "write"])
                        => disk[f] = r.out
            /\ Opened(f) => \E r \in ResultOf(f) : r.out # <<>>
            /\ disk[f] # call.diskBefore[f] =>
                  (Opened(f) /\ \E r \in ResultOf(f) : disk[f] = r.out)

\* A file of tags only whose every tag is replaced by the empty string.
C3_Witness ==
    /\ BatchEnded
    /\ \E f \in FileSet :
          /\ call.diskBefore[f] # <<>>
          /\ \E r \in ResultOf(f) : r.out = <<>>
          /\ disk[f] = call.diskBefore[f]
    /\ \E f \in FileSet : Opened(f) /\ disk[f] # call.diskBefore[f]

\* The substitution of content when every match is replaced by the
\* replacement text.
Substituted(content) ==
    sub(pattern, "", FALSE, TRUE, "subst", content).out

\* C2: in a batch run where every match raises in some files and every
\* match succeeds (is given its replacement text) in the others, and no
\* file is unreadable or unwritable: the run visits every file and
\* completes, each failing file is unchanged, each succeeding file holds
\* the substitution of its content, and current_filename is empty before
\* the run and after it.
C2_BatchRun ==
    (/\ BatchEnded
     /\ call.io = NoIo
     /\ \A f \in FileSet : func[f] \in {"raise", "subst"}) =>
        /\ call.visited = Files
        /\ call.outcome = "completed"
        /\ call.curBefore = ""
        /\ current_filename = ""
        /\ \A f \in FileSet :
              /\ func[f] = "raise" => disk[f] = call.diskBefore[f]
              /\ func[f] = "subst" =>
                    disk[f] = Substituted(call.diskBefore[f])

====
